---- MODULE Spec2Model ----
(***************************************************************************)
(* edit-github-blob.ts: fetch one file of a GitHub repository, apply the   *)
(* caller's replace function and commit the result, forking and/or opening *)
(* a pull request when the credential cannot push or the branch is         *)
(* protected.                                                              *)
(*                                                                         *)
(* Each invocation of the default export is a run.  A run is an async      *)
(* function: the code between two awaits executes without interruption,    *)
(* so one action models one awaited provider call together with the code   *)
(* that follows it up to the next await.  The provider (the injected       *)
(* apiClient) is shared by all runs; any call may be rejected.             *)
(***************************************************************************)
EXTENDS Integers, Sequences, FiniteSets, TLC

VARIABLES
  params,   \* params[r]: the Options a run was invoked with
  local,    \* local[r]: the run's local variables, its position, its outcome
  log,      \* log[r]: the provider calls and timers the run has issued, in order
  commits,  \* provider: the commit objects (file trees), shared by base and fork
  refs,     \* provider: <<repository, branch>> -> index of its head commit
  faultsLeft, \* provider: how many more calls it may reject without a cause
  now       \* Date.now(), in milliseconds

vars == <<params, local, log, commits, refs, faultsLeft, now>>

---------------------------------------------------------------------------
(* Bounds of the model *)

\* Date.now() runs freely up to this many clock steps; later it only moves
\* with the timers
MaxStartSteps == 3

\* the calls the provider may reject without a cause in its state: as many as
\* one run can meet (every attempt of createRef), and fewer when two runs
\* interleave
MaxFaults == 7
MaxConcFaults == 1

(* Program constants *)

\* retry(needsFork ? 6 : 0, ...)
ForkRetries == 6
NoForkRetries == 0
\* retry(..., 5000, ...)
RetryDelay == 5000
\* Date.now() / 1000
MsPerSecond == 1000

\* the clock moves in steps of half a second, so that rounding shows
NowStep == MsPerSecond \div 2

Runs == {1, 2}

---------------------------------------------------------------------------
(* Values *)

\* an optional parameter: <<>> is undefined, <<v>> is the value v
Undefined == <<>>
Some(v) == <<v>>

BaseRepo == [owner |-> "upstream", repo |-> "tap"]
\* what createFork answers: the credential's copy of the base repository
ForkRepo == [owner |-> "me", repo |-> "tap-1"]

DefaultBranch == "master"

\* file paths, as their segments
Paths == {<<"f.rb">>, <<"Formula", "f.rb">>, <<"Formula", "g.rb">>}

RECURSIVE PathStr(_)
PathStr(p) ==
  IF p = <<>> THEN ""
  ELSE IF Len(p) = 1 THEN p[1]
  ELSE p[1] \o "/" \o PathStr(Tail(p))

\* path.basename
Basename(p) == IF p = <<>> THEN "" ELSE p[Len(p)]

\* Buffer.from(s).toString('base64'): the empty text encodes to the empty text
ToBase64(s) == IF s = "" THEN <<>> ELSE <<"base64", s>>
\* Buffer.from(c, 'base64').toString('utf8')
FromBase64(c) == IF c = <<>> THEN "" ELSE c[2]

\* the blob SHA is the address of the stored content
BlobSha(c) == <<"blob", c>>

FileBlob(text) ==
  [kind |-> "file", hasContent |-> TRUE, content |-> ToBase64(text),
   sha |-> BlobSha(ToBase64(text))]
\* a file the provider lists without a content field
BareBlob ==
  [kind |-> "file", hasContent |-> FALSE, content |-> <<>>,
   sha |-> BlobSha(<<"base64", "large">>)]
\* getContents answers an array for a directory
DirBlob == [kind |-> "dir", hasContent |-> FALSE, content |-> <<>>, sha |-> <<>>]
NoBlob == [kind |-> "none", hasContent |-> FALSE, content |-> <<>>, sha |-> <<>>]

InitBlobs == {FileBlob("v1"), FileBlob(""), BareBlob, DirBlob}

\* the caller's replace functions
Replacers == {"identity", "append", "const"}
Replace(f, s) ==
  CASE f = "identity" -> s
    [] f = "append" -> s \o "+"
    [] f = "const" -> "v2"

\* commit messages, as tokens: "\n" is a line break, any other token is text
\* without a line break
NL == "\n"

RECURSIVE SplitParts(_, _)
SplitParts(msg, cur) ==
  IF msg = <<>> THEN <<cur>>
  ELSE IF Len(msg) >= 2 /\ msg[1] = NL /\ msg[2] = NL
    THEN <<cur>> \o SplitParts(SubSeq(msg, 3, Len(msg)), <<>>)
    ELSE SplitParts(Tail(msg), Append(cur, msg[1]))

\* commitMessage.split('\n\n')
Split(msg) == SplitParts(msg, <<>>)

RECURSIVE Join(_)
\* parts.join('\n\n')
Join(parts) ==
  IF parts = <<>> THEN <<>>
  ELSE IF Len(parts) = 1 THEN parts[1]
  ELSE parts[1] \o <<NL, NL>> \o Join(Tail(parts))

PrTitle(commitMessage) == Split(commitMessage)[1]
\* mutation: the body is the second part alone
PrBodySecondPart(commitMessage) ==
  IF Len(Split(commitMessage)) >= 2 THEN Split(commitMessage)[2] ELSE <<>>

PrBody(commitMessage) == Join(Tail(Split(commitMessage)))

Messages ==
  {Undefined, Some(<<>>), Some(<<"Fix typo">>),
   Some(<<"Fix typo", NL, NL, "Details", NL, "here">>),
   Some(<<"A", NL, NL, "B", NL, NL, "C">>)}

Branches == {Undefined, Some(""), Some("dev")}

\* JavaScript truthiness of an optional string: undefined and '' are falsy
TruthyBranch(opt) == opt # Undefined /\ opt[1] # ""
TruthyMessage(opt) == opt # Undefined /\ opt[1] # <<>>

---------------------------------------------------------------------------
(* The provider (the injected apiClient) *)

RefName(branch) == "refs/heads/" \o branch

HasRef(repo, ref) == <<repo, ref>> \in DOMAIN refs

\* the repository that a call names
RepoOf(args) == [owner |-> args.owner, repo |-> args.repo]

\* a rejected call: status code, the call, and its position in the run's log
\* (the code never inspects an error, so each rejection is its own value)
HttpError(r, api, code) == <<"HttpError", code, api, Len(log[r]) + 1>>

\* the status codes a call can be rejected with in the provider's state
ReposGetCodes == {403}
GetBranchCodes(branch) ==
  IF HasRef(BaseRepo, RefName(branch)) THEN {403} ELSE {404}
CreateForkCodes == {403}
CreateRefCodes(args) ==
  IF HasRef([owner |-> args.owner, repo |-> args.repo], args.ref)
       \/ args.sha \notin 1..Len(commits)
    THEN {422} ELSE {404}
GetContentsCodes(args) ==
  IF HasRef([owner |-> args.owner, repo |-> args.repo], RefName(args.ref))
    THEN {403} ELSE {404}
CreateOrUpdateFileCodes(args) ==
  LET repo == [owner |-> args.owner, repo |-> args.repo] IN
  IF ~HasRef(repo, RefName(args.branch)) THEN {404}
  ELSE IF commits[refs[<<repo, RefName(args.branch)>>]][args.path].sha # args.sha
    THEN {409} ELSE {403}
PullsCreateCodes == {422}

\* whether the provider can accept the call in its present state
CreateRefAccepts(args) == 422 \notin CreateRefCodes(args)
GetContentsAccepts(args) == 404 \notin GetContentsCodes(args)
CreateOrUpdateFileAccepts(args) == 403 \in CreateOrUpdateFileCodes(args)

\* the provider rejects a call: with a cause in its state, or else out of its
\* allowance of rejections without one
Rejects(acceptable) ==
  IF acceptable THEN faultsLeft > 0 /\ faultsLeft' = faultsLeft - 1
  ELSE UNCHANGED faultsLeft

\* a fork starts with the base repository's branches
ForkedRefs ==
  IF \E k \in DOMAIN refs : k[1] = ForkRepo THEN refs
  ELSE [k \in {<<ForkRepo, b[2]>> : b \in {x \in DOMAIN refs : x[1] = BaseRepo}}
          |-> refs[<<BaseRepo, k[2]>>]] @@ refs

---------------------------------------------------------------------------
(* The code's own computations *)

\* params.branch ? params.branch : repoRes.data.default_branch
BaseBranchOf(p, repoData) ==
  IF TruthyBranch(p.branch) THEN p.branch[1] ELSE repoData.default_branch

\* !repoRes.data.permissions.push
NeedsFork(repoData) == ~repoData.permissions.push

\* mutation: the PR decision inverts the protection flag
NeedsPrUnlessProtected(needsFork, branchData) == needsFork \/ ~branchData.protected

\* mutation: the PR decision forgets the fork
NeedsPrIfProtected(needsFork, branchData) == branchData.protected

\* needsFork || branchRes.data.protected
NeedsPr(needsFork, branchData) == needsFork \/ branchData.protected

\* Math.round(Date.now() / 1000): halves round up
Timestamp(ms) == (2 * ms + MsPerSecond) \div (2 * MsPerSecond)

\* `update-${basename(filePath)}-${timestamp}`
HeadBranchName(filePath, timestamp) ==
  "update-" \o Basename(filePath) \o "-" \o ToString(timestamp)

\* mutation: the retry budget is given whether or not a fork was made
RetryTimesAlways(needsFork) == ForkRetries

\* mutation: the retry budget with a fork is one too many
RetryTimesOneMore(needsFork) == IF needsFork THEN ForkRetries + 1 ELSE NoForkRetries

\* needsFork ? 6 : 0
RetryTimes(needsFork) == IF needsFork THEN ForkRetries ELSE NoForkRetries

\* mutation: the catch clause of retry is off by one
ShouldRetryOnceMore(times) == times >= 0

\* the catch clause of retry: times > 0
ShouldRetry(times) == times > 0

\* mutation: the directory guard never matches
IsDirectoryNever(fileData) == fileData.kind = "none"

\* Array.isArray(fileData)
IsDirectory(fileData) == fileData.kind = "dir"

\* mutation: a missing content field is read without the fallback to ''
ContentOfUnguarded(fileData) ==
  IF fileData.hasContent THEN fileData.content ELSE <<"base64", "undefined">>

\* ('content' in fileData && fileData.content) || ''
ContentOf(fileData) ==
  IF fileData.hasContent /\ fileData.content # <<>> THEN fileData.content
  ELSE <<>>

\* mutation: the no-change guard only catches an empty result
NoChangeIfEmpty(newContent, oldContent) == newContent = ""

\* newContent == oldContent
NoChange(newContent, oldContent) == newContent = oldContent

\* params.commitMessage ? params.commitMessage : `Update ${filePath}`
CommitMessageOf(p) ==
  IF TruthyMessage(p.commitMessage) THEN p.commitMessage[1]
  ELSE <<"Update " \o PathStr(p.filePath)>>

NotAFileError(filePath) ==
  <<"Error", "expected '" \o PathStr(filePath) \o "' is a file, got a directory">>
NoChangeError == <<"Error", "no replacements ocurred">>

\* mutation: the head ref is made in the base repository
CreateRefArgsInBase(l) ==
  [owner |-> BaseRepo.owner, repo |-> BaseRepo.repo,
   ref |-> RefName(l.headBranch), sha |-> l.branchRes.commit.sha]

CreateRefArgs(l) ==
  [owner |-> l.headRepo.owner, repo |-> l.headRepo.repo,
   ref |-> RefName(l.headBranch), sha |-> l.branchRes.commit.sha]

\* mutation: the file is read on the base branch
GetContentsArgsOnBase(l, filePath) ==
  [owner |-> l.headRepo.owner, repo |-> l.headRepo.repo,
   path |-> filePath, ref |-> l.baseBranch]

GetContentsArgs(l, filePath) ==
  [owner |-> l.headRepo.owner, repo |-> l.headRepo.repo,
   path |-> filePath, ref |-> l.headBranch]

\* mutation: the commit carries the SHA of the new content
CreateOrUpdateFileArgsNewSha(l, filePath) ==
  [owner |-> l.headRepo.owner, repo |-> l.headRepo.repo,
   path |-> filePath, message |-> l.commitMessage,
   content |-> ToBase64(l.newContent), sha |-> BlobSha(ToBase64(l.newContent)),
   branch |-> l.headBranch]

\* mutation: the commit goes to the base branch
CreateOrUpdateFileArgsOnBase(l, filePath) ==
  [owner |-> l.headRepo.owner, repo |-> l.headRepo.repo,
   path |-> filePath, message |-> l.commitMessage,
   content |-> ToBase64(l.newContent), sha |-> l.fileData.sha,
   branch |-> l.baseBranch]

CreateOrUpdateFileArgs(l, filePath) ==
  [owner |-> l.headRepo.owner, repo |-> l.headRepo.repo,
   path |-> filePath, message |-> l.commitMessage,
   content |-> ToBase64(l.newContent), sha |-> l.fileData.sha,
   branch |-> l.headBranch]

\* mutation: the PR head lacks its owner
PullsCreateArgsBareHead(l) ==
  [owner |-> BaseRepo.owner, repo |-> BaseRepo.repo,
   base |-> l.baseBranch, head |-> l.headBranch,
   title |-> PrTitle(l.commitMessage), body |-> PrBody(l.commitMessage)]

PullsCreateArgs(l) ==
  [owner |-> BaseRepo.owner, repo |-> BaseRepo.repo,
   base |-> l.baseBranch, head |-> l.headRepo.owner \o ":" \o l.headBranch,
   title |-> PrTitle(l.commitMessage), body |-> PrBody(l.commitMessage)]

---------------------------------------------------------------------------
(* A run *)

NoRepoData == [default_branch |-> "", permissions |-> [push |-> FALSE]]
NoBranchData == [protected |-> FALSE, commit |-> [sha |-> 0]]

\* the locals of a run that has not passed its first await
InitLocal(pc) ==
  [pc |-> pc, repoRes |-> NoRepoData, baseBranch |-> "", headBranch |-> "",
   headRepo |-> BaseRepo, branchRes |-> NoBranchData,
   needsFork |-> FALSE, needsPr |-> FALSE, timestamp |-> 0,
   times |-> 0, wakeAt |-> 0, fileData |-> NoBlob,
   oldContent |-> "", newContent |-> "", commitMessage |-> <<>>,
   result |-> <<>>, error |-> <<>>]

Entry(api, args, ok, ret) == [api |-> api, args |-> args, ok |-> ok, ret |-> ret]

\* the run goes on with locals l, having issued one more call
Goes(r, l, entry) ==
  /\ local' = [local EXCEPT ![r] = l]
  /\ log' = [log EXCEPT ![r] = Append(@, entry)]

\* mutation: the rejection is caught and another error thrown in its place
ThrowsTranslated(r, api, args, err) ==
  /\ local' = [local EXCEPT ![r] = [@ EXCEPT !.pc = "failed",
                                             !.error = <<"Error", "request failed">>]]
  /\ log' = [log EXCEPT ![r] = Append(@, Entry(api, args, FALSE, err))]
  /\ UNCHANGED <<params, commits, refs, now>>

\* the awaited call is rejected with err, which nothing catches
Throws(r, api, args, err) ==
  /\ local' = [local EXCEPT ![r] = [@ EXCEPT !.pc = "failed", !.error = err]]
  /\ log' = [log EXCEPT ![r] = Append(@, Entry(api, args, FALSE, err))]
  /\ UNCHANGED <<params, commits, refs, now>>

\* mutation: the head branch is named but never made
DecidedWithoutRef(l, filePath, ms) ==
  LET needsPr == NeedsPr(l.needsFork, l.branchRes)
      timestamp == Timestamp(ms)
  IN IF needsPr
       THEN [l EXCEPT !.needsPr = TRUE, !.timestamp = timestamp,
                      !.headBranch = HeadBranchName(filePath, timestamp),
                      !.times = RetryTimes(l.needsFork),
                      !.pc = "getContents"]
       ELSE [l EXCEPT !.needsPr = FALSE, !.pc = "getContents"]

\* lines 59-73 up to the next await: the PR decision, the head branch name,
\* and the retry budget of createRef
Decided(l, filePath, ms) ==
  LET needsPr == NeedsPr(l.needsFork, l.branchRes)
      timestamp == Timestamp(ms)
  IN IF needsPr
       THEN [l EXCEPT !.needsPr = TRUE, !.timestamp = timestamp,
                      !.headBranch = HeadBranchName(filePath, timestamp),
                      !.times = RetryTimes(l.needsFork),
                      !.pc = "createRef"]
       ELSE [l EXCEPT !.needsPr = FALSE, !.pc = "getContents"]

\* await api.repos.get(baseRepo), and the base branch
ReposGet(r) ==
  /\ local[r].pc = "repos.get"
  /\ \/ \E push \in BOOLEAN :
          LET data == [default_branch |-> DefaultBranch,
                       permissions |-> [push |-> push]]
              baseBranch == BaseBranchOf(params[r], data)
          IN /\ Goes(r, [local[r] EXCEPT !.repoRes = data,
                                         !.baseBranch = baseBranch,
                                         !.headBranch = baseBranch,
                                         !.pc = "getBranch"],
                     Entry("repos.get", BaseRepo, TRUE, data))
             /\ UNCHANGED <<params, commits, refs, faultsLeft, now>>
     \/ \E code \in ReposGetCodes :
          /\ Rejects(TRUE)
          /\ Throws(r, "repos.get", BaseRepo, HttpError(r, "repos.get", code))

\* await api.repos.getBranch(...), the fork decision and, without a fork,
\* the PR decision
GetBranch(r) ==
  LET l == local[r]
      args == [owner |-> BaseRepo.owner, repo |-> BaseRepo.repo,
               branch |-> l.baseBranch]
  IN /\ l.pc = "getBranch"
     /\ \/ /\ HasRef(BaseRepo, RefName(l.baseBranch))
           /\ \E protected \in BOOLEAN :
                LET data == [protected |-> protected,
                             commit |-> [sha |-> refs[<<BaseRepo, RefName(l.baseBranch)>>]]]
                    needsFork == NeedsFork(l.repoRes)
                    l1 == [l EXCEPT !.branchRes = data, !.needsFork = needsFork]
                IN /\ Goes(r, IF needsFork THEN [l1 EXCEPT !.pc = "createFork"]
                              ELSE Decided(l1, params[r].filePath, now),
                           Entry("getBranch", args, TRUE, data))
                   /\ UNCHANGED <<params, commits, refs, faultsLeft, now>>
        \/ \E code \in GetBranchCodes(l.baseBranch) :
             /\ Rejects(HasRef(BaseRepo, RefName(l.baseBranch)))
             /\ Throws(r, "getBranch", args, HttpError(r, "getBranch", code))

\* await api.repos.createFork(baseRepo), the head repository and the PR
\* decision
CreateFork(r) ==
  LET l == local[r] IN
  /\ l.pc = "createFork"
  /\ \/ LET data == [owner |-> [login |-> ForkRepo.owner], name |-> ForkRepo.repo]
            headRepo == [owner |-> data.owner.login, repo |-> data.name]
        IN /\ Goes(r, Decided([l EXCEPT !.headRepo = headRepo],
                              params[r].filePath, now),
                   Entry("createFork", BaseRepo, TRUE, data))
           /\ refs' = ForkedRefs
           /\ UNCHANGED <<params, commits, faultsLeft, now>>
     \/ \E code \in CreateForkCodes :
          /\ Rejects(TRUE)
          /\ Throws(r, "createFork", BaseRepo, HttpError(r, "createFork", code))

\* one attempt of retry(needsFork ? 6 : 0, 5000, ...): await api.git.createRef;
\* a rejection is caught, and either a timer is set or the rejection is thrown
CreateRef(r) ==
  LET l == local[r]
      args == CreateRefArgs(l)
  IN /\ l.pc = "createRef"
     /\ \/ /\ CreateRefAccepts(args)
           /\ refs' = (<<RepoOf(args), args.ref>> :> args.sha) @@ refs
           /\ Goes(r, [l EXCEPT !.pc = "getContents"],
                   Entry("createRef", args, TRUE, <<>>))
           /\ UNCHANGED <<params, commits, faultsLeft, now>>
        \/ \E code \in CreateRefCodes(args) :
             LET err == HttpError(r, "createRef", code) IN
             /\ Rejects(CreateRefAccepts(args))
             /\ IF ShouldRetry(l.times)
                  THEN /\ local' = [local EXCEPT ![r] =
                                      [l EXCEPT !.pc = "sleeping",
                                                !.wakeAt = now + RetryDelay]]
                       /\ log' = [log EXCEPT ![r] =
                                    @ \o <<Entry("createRef", args, FALSE, err),
                                           Entry("setTimeout", [delay |-> RetryDelay],
                                                 TRUE, <<>>)>>]
                       /\ UNCHANGED <<params, commits, refs, now>>
                  ELSE Throws(r, "createRef", args, err)

\* the timer of retry fires: resolve(retry(times - 1, delay, fn))
RetryTimer(r) ==
  LET l == local[r] IN
  /\ l.pc = "sleeping"
  /\ now' = IF now < l.wakeAt THEN l.wakeAt ELSE now
  /\ local' = [local EXCEPT ![r] = [l EXCEPT !.pc = "createRef",
                                            !.times = l.times - 1]]
  /\ UNCHANGED <<params, log, commits, refs, faultsLeft>>

\* await api.repos.getContents(...), the two guards, and the commit message
GetContents(r) ==
  LET l == local[r]
      filePath == params[r].filePath
      args == GetContentsArgs(l, filePath)
  IN /\ l.pc = "getContents"
     /\ \/ /\ GetContentsAccepts(args)
           /\ LET fileData == commits[refs[<<RepoOf(args), RefName(args.ref)>>]][args.path]
                  oldContent == FromBase64(ContentOf(fileData))
                  newContent == Replace(params[r].replace, oldContent)
                  l1 == [l EXCEPT !.fileData = fileData]
                  l2 == [l1 EXCEPT !.oldContent = oldContent,
                                   !.newContent = newContent]
              IN Goes(r,
                      IF IsDirectory(fileData)
                        THEN [l1 EXCEPT !.pc = "failed",
                                        !.error = NotAFileError(filePath)]
                      ELSE IF NoChange(newContent, oldContent)
                        THEN [l2 EXCEPT !.pc = "failed", !.error = NoChangeError]
                      ELSE [l2 EXCEPT !.commitMessage = CommitMessageOf(params[r]),
                                      !.pc = "createOrUpdateFile"],
                      Entry("getContents", args, TRUE, fileData))
           /\ UNCHANGED <<params, commits, refs, faultsLeft, now>>
        \/ \E code \in GetContentsCodes(args) :
             /\ Rejects(GetContentsAccepts(args))
             /\ Throws(r, "getContents", args, HttpError(r, "getContents", code))

\* await api.repos.createOrUpdateFile(...), and the commit URL when no PR is
\* needed
CreateOrUpdateFile(r) ==
  LET l == local[r]
      args == CreateOrUpdateFileArgs(l, params[r].filePath)
  IN /\ l.pc = "createOrUpdateFile"
     /\ \/ /\ CreateOrUpdateFileAccepts(args)
           /\ LET key == <<RepoOf(args), RefName(args.branch)>>
                  id == Len(commits) + 1
                  blob == [kind |-> "file", hasContent |-> TRUE,
                           content |-> args.content, sha |-> BlobSha(args.content)]
                  data == [commit |-> [html_url |-> <<"commit", args.owner, args.repo, id>>]]
              IN /\ commits' = Append(commits,
                                      [commits[refs[key]] EXCEPT ![args.path] = blob])
                 /\ refs' = [refs EXCEPT ![key] = id]
                 /\ Goes(r,
                         IF l.needsPr THEN [l EXCEPT !.pc = "pulls.create"]
                         ELSE [l EXCEPT !.pc = "done",
                                        !.result = data.commit.html_url],
                         Entry("createOrUpdateFile", args, TRUE, data))
           /\ UNCHANGED <<params, faultsLeft, now>>
        \/ \E code \in CreateOrUpdateFileCodes(args) :
             /\ Rejects(CreateOrUpdateFileAccepts(args))
             /\ Throws(r, "createOrUpdateFile", args,
                       HttpError(r, "createOrUpdateFile", code))

\* await api.pulls.create(...), and the PR URL
PullsCreate(r) ==
  LET l == local[r]
      args == PullsCreateArgs(l)
  IN /\ l.pc = "pulls.create"
     /\ \/ LET data == [html_url |-> <<"pull", args.owner, args.repo, args.head>>]
           IN /\ Goes(r, [l EXCEPT !.pc = "done", !.result = data.html_url],
                      Entry("pulls.create", args, TRUE, data))
              /\ UNCHANGED <<params, commits, refs, faultsLeft, now>>
        \/ \E code \in PullsCreateCodes :
             /\ Rejects(TRUE)
             /\ Throws(r, "pulls.create", args, HttpError(r, "pulls.create", code))

\* time passes; the clock is read only when the head branch is named and by
\* the timers, so it is left alone once no run is still to name its branch
Tick ==
  /\ now < MaxStartSteps * NowStep
  /\ \E r \in Runs : local[r].pc \in {"repos.get", "getBranch", "createFork"}
  /\ now' = now + NowStep
  /\ UNCHANGED <<params, local, log, commits, refs, faultsLeft>>

---------------------------------------------------------------------------
(* Specifications *)

AllParams ==
  [filePath : Paths, branch : Branches, replace : Replacers,
   commitMessage : Messages]

\* the repository's files at the start: the file at path holds any blob, the
\* other files a plain text
InitTrees(paths) ==
  {tree \in [Paths -> InitBlobs] :
     \A q \in Paths \ paths : tree[q] = FileBlob("v1")}

InitRefs ==
  (<<BaseRepo, RefName(DefaultBranch)>> :> 1) @@ (<<BaseRepo, RefName("dev")>> :> 1)

IdleParams ==
  [filePath |-> <<"f.rb">>, branch |-> Undefined, replace |-> "identity",
   commitMessage |-> Undefined]

\* one run, with any parameters, on any repository content
Init ==
  /\ \E p \in AllParams :
       /\ params = (1 :> p) @@ (2 :> IdleParams)
       /\ \E tree \in InitTrees({p.filePath}) : commits = <<tree>>
  /\ local = (1 :> InitLocal("repos.get")) @@ (2 :> InitLocal("idle"))
  /\ log = [r \in Runs |-> <<>>]
  /\ refs = InitRefs
  /\ faultsLeft = MaxFaults
  /\ now = 0

Step(r) ==
  \/ ReposGet(r)
  \/ GetBranch(r)
  \/ CreateFork(r)
  \/ CreateRef(r)
  \/ RetryTimer(r)
  \/ GetContents(r)
  \/ CreateOrUpdateFile(r)
  \/ PullsCreate(r)

Next == Tick \/ \E r \in Runs : Step(r)

Spec == Init /\ [][Next]_vars

\* every awaited call is answered and every timer fires
SpecLive == Init /\ [][Next]_vars /\ \A r \in Runs : WF_vars(Step(r))

\* two concurrent runs with the default branch and the default commit
\* message, on one file or on two files of the same name
ConcParams ==
  {p \in [Runs -> [filePath : {<<"f.rb">>, <<"Formula", "f.rb">>},
                   branch : {Undefined}, replace : {"append", "const"},
                   commitMessage : {Undefined}]] :
     p[1].filePath = <<"f.rb">> /\ p[1].replace = "append"}

InitConc ==
  /\ params \in ConcParams
  /\ local = [r \in Runs |-> InitLocal("repos.get")]
  /\ log = [r \in Runs |-> <<>>]
  /\ commits = <<[q \in Paths |-> FileBlob("v1")]>>
  /\ refs = InitRefs
  /\ faultsLeft = MaxConcFaults
  /\ now = 0

SpecConc == InitConc /\ [][Next]_vars

---------------------------------------------------------------------------
(* What a run has done, read from its log *)

Calls(r, api) == {i \in DOMAIN log[r] : log[r][i].api = api}
Accepted(r, api) == {i \in Calls(r, api) : log[r][i].ok}
Rejected(r, api) == {i \in Calls(r, api) : ~log[r][i].ok}

Failed(r) == local[r].pc = "failed"
Done(r) == local[r].pc = "done"

\* the last thing the run did was call i
IsLast(r, i) == i = Len(log[r])

\* the run ended by throwing the rejection of call i
ThrewRejection(r, i) ==
  IsLast(r, i) /\ Failed(r) /\ local[r].error = log[r][i].ret

PushGranted(r) ==
  \E i \in Accepted(r, "repos.get") : log[r][i].ret.permissions.push
PushDenied(r) ==
  \E i \in Accepted(r, "repos.get") : ~log[r][i].ret.permissions.push
Protected(r) == \E i \in Accepted(r, "getBranch") : log[r][i].ret.protected
Unprotected(r) == \E i \in Accepted(r, "getBranch") : ~log[r][i].ret.protected

\* the text of the file that getContents answered
TextOf(blob) == IF blob.hasContent THEN FromBase64(blob.content) ELSE ""

\* getContents answered a file, and replace returns its text unchanged
NoOpEdit(r) ==
  \E i \in Accepted(r, "getContents") :
    /\ log[r][i].ret.kind = "file"
    /\ Replace(params[r].replace, TextOf(log[r][i].ret)) = TextOf(log[r][i].ret)

\* getContents answered a directory listing
GotDirectory(r) ==
  \E i \in Accepted(r, "getContents") : log[r][i].ret.kind = "dir"

NoCalls(r, apis) == \A api \in apis : Calls(r, api) = {}

\* on a PR path the fork (if any) and the head ref were made before the file
\* was read
WritesBeforeRead(r) ==
  /\ NoCalls(r, {"createOrUpdateFile", "pulls.create"})
  /\ IF PushGranted(r) /\ Unprotected(r)
       THEN NoCalls(r, {"createFork", "createRef"})
       ELSE /\ Cardinality(Accepted(r, "createRef")) = 1
            /\ Cardinality(Accepted(r, "createFork")) = (IF PushDenied(r) THEN 1 ELSE 0)

---------------------------------------------------------------------------
(* The claims *)

\* C1, as stated: a run whose replace returns the old content fails with the
\* no-change error having issued no write at all (no createFork, createRef,
\* createOrUpdateFile, pulls.create), on every path.
C1_NoWriteBeforeNoChange ==
  \A r \in Runs :
    NoOpEdit(r) =>
      /\ Failed(r) /\ local[r].error = NoChangeError
      /\ NoCalls(r, {"createFork", "createRef", "createOrUpdateFile", "pulls.create"})

\* C1, amended: a run whose replace returns the old content fails with the
\* no-change error right after getContents, having called neither
\* createOrUpdateFile nor pulls.create; on the direct-commit path it has
\* issued no write at all, on the PR paths createRef (and createFork on the
\* fork path) has already succeeded.
C1_NoCommitBeforeNoChange ==
  \A r \in Runs :
    NoOpEdit(r) =>
      /\ Failed(r) /\ local[r].error = NoChangeError
      /\ log[r][Len(log[r])].api = "getContents"
      /\ WritesBeforeRead(r)

C1_Witness ==
  NoOpEdit(1) /\ Failed(1) /\ PushDenied(1) /\ Accepted(1, "createRef") # {}

\* C2, as stated: a run whose getContents answers a directory listing fails
\* with the not-a-file error having issued no write at all, on every path.
C2_NoWriteBeforeNotAFile ==
  \A r \in Runs :
    GotDirectory(r) =>
      /\ Failed(r) /\ local[r].error = NotAFileError(params[r].filePath)
      /\ NoCalls(r, {"createFork", "createRef", "createOrUpdateFile", "pulls.create"})

\* C2, amended: a run whose getContents answers a directory listing fails
\* with the not-a-file error right after getContents, having called neither
\* createOrUpdateFile nor pulls.create; on the direct-commit path it has
\* issued no write at all, on the PR paths createRef (and createFork on the
\* fork path) has already succeeded.
C2_NoCommitBeforeNotAFile ==
  \A r \in Runs :
    GotDirectory(r) =>
      /\ Failed(r) /\ local[r].error = NotAFileError(params[r].filePath)
      /\ log[r][Len(log[r])].api = "getContents"
      /\ WritesBeforeRead(r)

C2_Witness ==
  GotDirectory(1) /\ Failed(1) /\ PushGranted(1) /\ Protected(1)
    /\ Accepted(1, "createRef") # {}

\* C3: any two concurrent runs that both need a PR have distinct head branch
\* names, also when they name the branch for the same basename within the
\* same clock second.
C3_HeadBranchesDistinct ==
  \A r1, r2 \in Runs :
    (r1 # r2 /\ local[r1].needsPr /\ local[r2].needsPr)
      => local[r1].headBranch # local[r2].headBranch

\* the attempts of createRef up to call i
AttemptsUpTo(r, i) == {j \in Calls(r, "createRef") : j <= i}

\* every timer was set by a rejected createRef, waits the fixed delay, and is
\* followed by nothing but the next attempt
TimersBetweenAttempts(r) ==
  \A i \in Calls(r, "setTimeout") :
    /\ i - 1 \in Rejected(r, "createRef")
    /\ log[r][i].args.delay = 5000
    /\ i < Len(log[r]) => log[r][i + 1].api = "createRef"

\* C4: with a fork, createRef is attempted at most 7 times, with exactly one
\* fixed delay between consecutive attempts; when attempt k succeeds the run
\* goes on to getContents after k-1 delays and calls createRef no more; when
\* all attempts are rejected the run fails with the rejection of the last
\* attempt, after exactly 6 retries, and calls nothing more.
C4_ForkRetriesCreateRef ==
  \A r \in Runs :
    local[r].needsFork =>
      /\ Cardinality(Calls(r, "createRef")) <= 7
      /\ Cardinality(Calls(r, "setTimeout")) <= 6
      /\ TimersBetweenAttempts(r)
      /\ now >= 5000 * (Cardinality(Calls(r, "setTimeout"))
                          - (IF local[r].pc = "sleeping" THEN 1 ELSE 0))
      /\ \A i \in Rejected(r, "createRef") :
           IF IsLast(r, i)
             THEN /\ ThrewRejection(r, i)
                  /\ Cardinality(Calls(r, "createRef")) = 7
                  /\ Cardinality(Calls(r, "setTimeout")) = 6
             ELSE log[r][i + 1].api = "setTimeout"
      /\ \A i \in Accepted(r, "createRef") :
           /\ Calls(r, "createRef") = AttemptsUpTo(r, i)
           /\ Cardinality(Calls(r, "setTimeout")) = Cardinality(AttemptsUpTo(r, i)) - 1
           /\ IF IsLast(r, i) THEN local[r].pc = "getContents"
              ELSE log[r][i + 1].api = "getContents"

C4_Witness ==
  /\ local[1].needsFork /\ Failed(1)
  /\ Cardinality(Rejected(1, "createRef")) = 7
  /\ Cardinality(Calls(1, "setTimeout")) = 6

\* C5: when a PR is needed and no fork was made, createRef is attempted
\* exactly once and no timer is set: a rejection fails the run at once with
\* that error, and no getContents, createOrUpdateFile or pulls.create follows.
C5_NoForkNoRetry ==
  \A r \in Runs :
    (local[r].needsPr /\ ~local[r].needsFork) =>
      /\ Calls(r, "setTimeout") = {}
      /\ Cardinality(Calls(r, "createRef")) =
           (IF local[r].pc = "createRef" THEN 0 ELSE 1)
      /\ \A i \in Rejected(r, "createRef") : ThrewRejection(r, i)

C5_Witness ==
  /\ local[1].needsPr /\ ~local[1].needsFork
  /\ Rejected(1, "createRef") # {} /\ Failed(1)

\* getContents and createOrUpdateFile were each called once, on the file of
\* repository repo at branch
ReadAndCommittedOn(r, repo, branch) ==
  /\ Cardinality(Calls(r, "getContents")) = 1
  /\ Cardinality(Calls(r, "createOrUpdateFile")) = 1
  /\ \A i \in Calls(r, "getContents") :
       /\ log[r][i].args.owner = repo.owner /\ log[r][i].args.repo = repo.repo
       /\ log[r][i].args.path = params[r].filePath
       /\ log[r][i].args.ref = branch
  /\ \A i \in Calls(r, "createOrUpdateFile") :
       /\ log[r][i].args.owner = repo.owner /\ log[r][i].args.repo = repo.repo
       /\ log[r][i].args.path = params[r].filePath
       /\ log[r][i].args.branch = branch

\* the base branch the caller asked for
AskedBranch(r) ==
  IF params[r].branch \in {Undefined, Some("")} THEN "master"
  ELSE params[r].branch[1]

\* C6: with push permission on an unprotected base branch, a successful run
\* calls neither createFork nor createRef nor pulls.create, reads and commits
\* the file in the base repository on the base branch, and returns the commit
\* URL that createOrUpdateFile answered.
C6_DirectCommit ==
  \A r \in Runs :
    (Done(r) /\ PushGranted(r) /\ Unprotected(r)) =>
      /\ NoCalls(r, {"createFork", "createRef", "pulls.create"})
      /\ local[r].headRepo = BaseRepo
      /\ local[r].headBranch = local[r].baseBranch
      /\ local[r].baseBranch = AskedBranch(r)
      /\ ReadAndCommittedOn(r, BaseRepo, AskedBranch(r))
      /\ \A i \in Calls(r, "createOrUpdateFile") :
           log[r][i].ok /\ local[r].result = log[r][i].ret.commit.html_url

C6_Witness == Done(1) /\ PushGranted(1) /\ Unprotected(1)

\* the name of the branch the run made: update-<basename>-<timestamp>
MadeBranch(r) ==
  "update-" \o Basename(params[r].filePath) \o "-" \o ToString(local[r].timestamp)

\* the head ref was made once in repository repo, at the commit getBranch
\* answered for the base branch, under the name update-<basename>-<timestamp>
MadeRefIn(r, repo) ==
  /\ Cardinality(Accepted(r, "createRef")) = 1
  /\ \A i \in Calls(r, "createRef") :
       /\ log[r][i].args.owner = repo.owner /\ log[r][i].args.repo = repo.repo
       /\ log[r][i].args.ref = "refs/heads/" \o MadeBranch(r)
       /\ \E j \in Accepted(r, "getBranch") :
            /\ log[r][j].args.branch = AskedBranch(r)
            /\ log[r][i].args.sha = log[r][j].ret.commit.sha

\* a PR was opened in the base repository from owner:branch into the base
\* branch, and its URL returned
OpenedPrFrom(r, owner) ==
  /\ Cardinality(Calls(r, "pulls.create")) = 1
  /\ \A i \in Calls(r, "pulls.create") :
       /\ log[r][i].ok
       /\ log[r][i].args.owner = BaseRepo.owner /\ log[r][i].args.repo = BaseRepo.repo
       /\ log[r][i].args.base = AskedBranch(r)
       /\ log[r][i].args.head = owner \o ":" \o MadeBranch(r)
       /\ local[r].result = log[r][i].ret.html_url
       /\ \E j \in Accepted(r, "createOrUpdateFile") : j < i

\* C7: without push permission, a successful run calls createFork on the base
\* repository, makes the ref refs/heads/update-<basename>-<timestamp> in the
\* fork that createFork answered, at the base branch's head commit answered by
\* getBranch, reads and commits the file on that branch of the fork, opens a
\* PR in the base repository with base = base branch and head =
\* <fork owner>:<head branch>, and returns the PR URL, whether or not the base
\* branch is protected.
C7_ForkAndPr ==
  \A r \in Runs :
    (Done(r) /\ PushDenied(r)) =>
      /\ Cardinality(Calls(r, "createFork")) = 1
      /\ \A i \in Calls(r, "createFork") :
           LET fork == [owner |-> log[r][i].ret.owner.login,
                        repo |-> log[r][i].ret.name]
           IN /\ log[r][i].ok /\ log[r][i].args = BaseRepo
              /\ MadeRefIn(r, fork)
              /\ ReadAndCommittedOn(r, fork, MadeBranch(r))
              /\ OpenedPrFrom(r, fork.owner)

C7_Witness == Done(1) /\ PushDenied(1) /\ Unprotected(1)

\* C8: with push permission on a protected base branch, a successful run
\* never calls createFork, makes the new head branch in the base repository
\* at the base branch's head commit, commits the file to that new branch and
\* not to the base branch, opens a PR from it into the base branch, and
\* returns the PR URL.
C8_SameRepoPr ==
  \A r \in Runs :
    (Done(r) /\ PushGranted(r) /\ Protected(r)) =>
      /\ NoCalls(r, {"createFork"})
      /\ MadeRefIn(r, BaseRepo)
      /\ MadeBranch(r) # AskedBranch(r)
      /\ ReadAndCommittedOn(r, BaseRepo, MadeBranch(r))
      /\ OpenedPrFrom(r, BaseRepo.owner)

C8_Witness == Done(1) /\ PushGranted(1) /\ Protected(1)

\* the PR decision has been taken (line 59 was passed)
PrDecided(r) ==
  /\ Accepted(r, "getBranch") # {}
  /\ local[r].needsFork => Accepted(r, "createFork") # {}

\* C9: once both decisions are taken needsFork implies needsPr, so a run is on
\* one of three paths; a run that made a fork goes on to createRef, ends, if it
\* succeeds, with pulls.create, and never returns a commit URL.
C9_ForkImpliesPr ==
  \A r \in Runs :
    /\ PrDecided(r) =>
         /\ local[r].needsFork => local[r].needsPr
         /\ local[r].needsFork = PushDenied(r)
         /\ local[r].needsPr = (PushDenied(r) \/ Protected(r))
    /\ \A i \in Accepted(r, "createFork") :
         /\ IF IsLast(r, i) THEN local[r].pc = "createRef"
            ELSE log[r][i + 1].api = "createRef"
         /\ Done(r) =>
              /\ log[r][Len(log[r])].api = "pulls.create"
              /\ local[r].result = log[r][Len(log[r])].ret.html_url
              /\ \A j \in Calls(r, "createOrUpdateFile") :
                   local[r].result # log[r][j].ret.commit.html_url

C9_Witness == Done(1) /\ local[1].needsFork /\ Unprotected(1)

\* C10: repos.get, getBranch, createFork, getContents, createOrUpdateFile and
\* pulls.create are each called at most once in a run; when one of them is
\* rejected the run fails with that very error and calls nothing more.  A
\* createOrUpdateFile rejected for a stale blob SHA is neither retried nor
\* followed by pulls.create.
C10_RejectionsPropagate ==
  \A r \in Runs :
    \A api \in {"repos.get", "getBranch", "createFork", "getContents",
                "createOrUpdateFile", "pulls.create"} :
      /\ Cardinality(Calls(r, api)) <= 1
      /\ \A i \in Rejected(r, api) : ThrewRejection(r, i)

\* a run's commit was rejected because another run had changed the file
C10_Witness ==
  \E r \in Runs : \E i \in Rejected(r, "createOrUpdateFile") :
    log[r][i].ret[2] = 409 /\ Failed(r)

\* the blob that the provider holds for the file a call names
BlobAt(args, branch) ==
  commits[refs[<<[owner |-> args.owner, repo |-> args.repo], RefName(branch)>>]][args.path]

\* the commit of a run carries the SHA that the run's own getContents answered
\* for the same repository, path and branch
CommitsWithReadSha(r) ==
  \A i \in Calls(r, "createOrUpdateFile") :
    \E j \in Accepted(r, "getContents") :
      /\ j < i
      /\ log[r][j].args.owner = log[r][i].args.owner
      /\ log[r][j].args.repo = log[r][i].args.repo
      /\ log[r][j].args.path = log[r][i].args.path
      /\ log[r][j].args.ref = log[r][i].args.branch
      /\ log[r][i].args.sha = log[r][j].ret.sha

\* the run commits directly to the base branch
DirectCommitRun(r) == PushGranted(r) /\ Unprotected(r)

\* two direct-commit runs read the same blob of the same file
ReadSameBlob(r1, r2) ==
  /\ r1 # r2 /\ DirectCommitRun(r1) /\ DirectCommitRun(r2)
  /\ params[r1].filePath = params[r2].filePath
  /\ \E i \in Accepted(r1, "getContents") : \E j \in Accepted(r2, "getContents") :
       log[r1][i].ret.sha = log[r2][j].ret.sha

\* in this step the provider accepts the commit of run r
CommitAccepted(r) ==
  /\ Accepted(r, "createOrUpdateFile") = {}
  /\ Accepted(r, "createOrUpdateFile")' # {}

\* C11: the blob SHA passed to createOrUpdateFile is the SHA that the run's own
\* getContents answered for the same repository, path and branch; a commit is
\* accepted only while the file still holds the content the run read, and then
\* it stores replace of that content; of two direct-commit runs that read the
\* same blob of one file at most one commits, and the other, once it calls
\* createOrUpdateFile, fails.
C11_NoLostUpdate ==
  [][\A r \in Runs :
       /\ CommitsWithReadSha(r)'
       /\ CommitAccepted(r) =>
            \E j \in Accepted(r, "getContents") :
              /\ BlobAt(log[r][j].args, log[r][j].args.ref).sha = log[r][j].ret.sha
              /\ BlobAt(log[r][j].args, log[r][j].args.ref)'.content =
                   ToBase64(Replace(params[r].replace,
                                    TextOf(BlobAt(log[r][j].args, log[r][j].args.ref))))
       /\ \A r2 \in Runs :
            ReadSameBlob(r, r2)' =>
              /\ ~(Accepted(r, "createOrUpdateFile")' # {}
                     /\ Accepted(r2, "createOrUpdateFile")' # {})
              /\ (Accepted(r, "createOrUpdateFile")' # {}
                     /\ Calls(r2, "createOrUpdateFile")' # {}) => Failed(r2)'
  ]_vars

\* two direct-commit runs read the same blob; one has committed and the other
\* was rejected for its stale SHA
C11_Witness ==
  /\ ReadSameBlob(1, 2)
  /\ Accepted(1, "createOrUpdateFile") # {}
  /\ \E i \in Rejected(2, "createOrUpdateFile") : log[2][i].ret[2] = 409

\* the run has ended
Ended(r) == Done(r) \/ Failed(r)

ProviderApis ==
  {"repos.get", "getBranch", "createFork", "createRef", "getContents",
   "createOrUpdateFile", "pulls.create"}

\* the calls the run has made on the provider
ApiCalls(r) == {i \in DOMAIN log[r] : log[r][i].api \in ProviderApis}

\* a URL is returned or an error thrown, never both, and neither before the end
OneOutcome(r) ==
  /\ Done(r) => local[r].result # <<>> /\ local[r].error = <<>>
  /\ Failed(r) => local[r].error # <<>> /\ local[r].result = <<>>
  /\ ~Ended(r) => local[r].result = <<>> /\ local[r].error = <<>>

\* C12: when every call is answered and every timer fires, every run ends; it
\* ends either returning a URL or failing with an error, and a failed run
\* returns no URL; a run that returns a URL had every call accepted but for at
\* most 6 rejected createRef attempts; a run makes at most 6 calls other than
\* createRef and at most 7 createRef calls.
C12_EndsWithOneOutcome ==
  /\ \A r \in Runs : (local[r].pc # "idle") ~> Ended(r)
  /\ [](\A r \in Runs :
          /\ OneOutcome(r)
          /\ Done(r) =>
               /\ \A i \in ApiCalls(r) : log[r][i].ok \/ log[r][i].api = "createRef"
               /\ Cardinality(Rejected(r, "createRef")) <= 6
          /\ Cardinality(Calls(r, "createRef")) <= 7
          /\ Cardinality(ApiCalls(r) \ Calls(r, "createRef")) <= 6
          /\ Cardinality(ApiCalls(r)) <= 13)

\* a run returned a URL after 6 rejected attempts of createRef
C12_Witness ==
  Done(1) /\ Cardinality(Rejected(1, "createRef")) = 6 /\ local[1].result # <<>>

\* the commit message in force: the caller's, or 'Update <filePath>'
MessageInForce(r) ==
  IF params[r].commitMessage = Undefined \/ params[r].commitMessage = Some(<<>>)
    THEN <<"Update " \o PathStr(params[r].filePath)>>
    ELSE params[r].commitMessage[1]

\* the places of msg where a blank line ("\n\n") starts
BlankLines(msg) == {k \in 1..(Len(msg) - 1) : msg[k] = NL /\ msg[k + 1] = NL}

\* title and body are msg cut at its first blank line
CutAtFirstBlankLine(msg, title, body) ==
  IF BlankLines(msg) = {} THEN title = msg /\ body = <<>>
  ELSE LET k == CHOOSE x \in BlankLines(msg) : \A y \in BlankLines(msg) : x <= y
       IN /\ title = SubSeq(msg, 1, k - 1)
          /\ body = SubSeq(msg, k + 2, Len(msg))

\* C13: the PR title is the commit message (the caller's, or the default
\* 'Update <filePath>') up to its first blank line and the PR body all that
\* follows it, later blank lines kept; a message without a blank line is the
\* title whole, with an empty body.  The commit carries the whole message.
C13_MessageSplit ==
  \A r \in Runs :
    /\ \A i \in Calls(r, "pulls.create") :
         CutAtFirstBlankLine(MessageInForce(r), log[r][i].args.title, log[r][i].args.body)
    /\ \A i \in Calls(r, "createOrUpdateFile") :
         log[r][i].args.message = MessageInForce(r)

\* a PR was opened for a message of three paragraphs
C13_Witness ==
  /\ params[1].commitMessage = Some(<<"A", NL, NL, "B", NL, NL, "C">>)
  /\ \E i \in Accepted(1, "pulls.create") :
       log[1][i].args.title = <<"A">> /\ log[1][i].args.body = <<"B", NL, NL, "C">>

\* the provider call that follows call i in the run's log
NextCall(r, i) ==
  CHOOSE j \in ApiCalls(r) : j > i /\ \A k \in ApiCalls(r) : k > i => j <= k

\* the call that the fixed order puts after an accepted call
CallAfter(r, api) ==
  CASE api = "repos.get" -> "getBranch"
    [] api = "getBranch" ->
         IF PushDenied(r) THEN "createFork"
         ELSE IF Protected(r) THEN "createRef" ELSE "getContents"
    [] api = "createFork" -> "createRef"
    [] api = "createRef" -> "getContents"
    [] api = "getContents" -> "createOrUpdateFile"
    [] api = "createOrUpdateFile" ->
         IF PushDenied(r) \/ Protected(r) THEN "pulls.create" ELSE "none"
    [] api = "pulls.create" -> "none"

\* getContents answered a file that replace changes
GuardsPassed(r) ==
  \E i \in Accepted(r, "getContents") :
    /\ log[r][i].ret.kind = "file"
    /\ Replace(params[r].replace, TextOf(log[r][i].ret)) # TextOf(log[r][i].ret)

\* C14: the calls of a run come in one order, each after the one before it
\* was accepted: repos.get, getBranch, createFork (without push permission
\* only), createRef (when a PR is needed only; a rejected attempt is followed
\* by the next attempt alone), getContents, createOrUpdateFile, pulls.create
\* (when a PR is needed only).  getContents on the head branch follows an
\* accepted createRef, createOrUpdateFile follows the guards, pulls.create an
\* accepted createOrUpdateFile.
C14_CallOrder ==
  \A r \in Runs :
    /\ \A i \in ApiCalls(r) :
         /\ (\A k \in ApiCalls(r) : i <= k) => log[r][i].api = "repos.get"
         /\ (\E k \in ApiCalls(r) : k > i) =>
              IF log[r][i].ok
                THEN log[r][NextCall(r, i)].api = CallAfter(r, log[r][i].api)
                ELSE /\ log[r][i].api = "createRef"
                     /\ log[r][NextCall(r, i)].api = "createRef"
    /\ Calls(r, "createOrUpdateFile") # {} => GuardsPassed(r)
    /\ \A i \in Calls(r, "getContents") :
         (PushDenied(r) \/ Protected(r)) =>
           \E j \in Accepted(r, "createRef") :
             j < i /\ log[r][j].args.ref = "refs/heads/" \o log[r][i].args.ref
    /\ \A i \in Calls(r, "pulls.create") :
         \E j \in Accepted(r, "createOrUpdateFile") : j < i

\* a run made all seven calls, createRef twice
C14_Witness ==
  /\ Done(1) /\ Accepted(1, "createFork") # {}
  /\ Cardinality(Calls(1, "createRef")) = 2
  /\ Accepted(1, "pulls.create") # {}

\* getContents answered a single file whose content is absent or empty
ContentMissing(blob) ==
  blob.kind = "file" /\ (~blob.hasContent \/ blob.content = <<>>)

\* C15: when getContents answers a single file whose content field is absent
\* or empty the run does not fail there: oldContent is '', replace is applied
\* to '', the run fails with the no-change error only if replace('') is '',
\* and otherwise it commits the new content with the SHA of the answered file.
C15_MissingContentIsEmpty ==
  \A r \in Runs :
    \A i \in Accepted(r, "getContents") :
      ContentMissing(log[r][i].ret) =>
        /\ local[r].oldContent = ""
        /\ local[r].newContent = Replace(params[r].replace, "")
        /\ IF Replace(params[r].replace, "") = ""
             THEN IsLast(r, i) /\ Failed(r) /\ local[r].error = NoChangeError
             ELSE /\ IsLast(r, i) => local[r].pc = "createOrUpdateFile"
                  /\ ~IsLast(r, i) => log[r][i + 1].api = "createOrUpdateFile"
                  /\ \A j \in Calls(r, "createOrUpdateFile") :
                       /\ log[r][j].args.content = ToBase64(Replace(params[r].replace, ""))
                       /\ log[r][j].args.sha = log[r][i].ret.sha

\* a file without a content field was read and its new content committed
C15_Witness ==
  \E i \in Accepted(1, "getContents") :
    /\ ~log[1][i].ret.hasContent /\ log[1][i].ret.kind = "file"
    /\ \E j \in Accepted(1, "createOrUpdateFile") :
         log[1][j].args.content = <<"base64", "+">>

\* the branches of the fork that the run made, if it made one
ForkRefsOf(r) ==
  IF Accepted(r, "createFork") = {} THEN {}
  ELSE {<<ForkRepo, k[2]>> : k \in DOMAIN InitRefs}

\* the head ref that the run made, if it made one
HeadRefOf(r) ==
  IF Accepted(r, "createRef") = {} THEN {}
  ELSE {<<local[r].headRepo, "refs/heads/" \o local[r].headBranch>>}

\* C16: a failed run has opened no PR and, unless pulls.create is the call
\* that failed, has left no commit; all that a run failing before its commit
\* leaves at the provider is the fork and the head ref it made, which it does
\* not remove: the branch is still there after the failure.
C16_FailureLeavesNoCommit ==
  \A r \in Runs :
    Failed(r) =>
      /\ Accepted(r, "pulls.create") = {}
      /\ \A i \in DOMAIN log[r] : log[r][i].api \in ProviderApis \cup {"setTimeout"}
      /\ log[r][Len(log[r])].api # "pulls.create" =>
           /\ Accepted(r, "createOrUpdateFile") = {}
           /\ Len(commits) = 1
           /\ DOMAIN refs = DOMAIN InitRefs \cup ForkRefsOf(r) \cup HeadRefOf(r)
           /\ \A k \in DOMAIN refs : refs[k] = 1

\* a run on the fork path failed for want of a change; its branch is left in
\* the fork
C16_Witness ==
  /\ Failed(1) /\ local[1].error = NoChangeError
  /\ Accepted(1, "createFork") # {}
  /\ <<ForkRepo, "refs/heads/" \o local[1].headBranch>> \in DOMAIN refs

\* the run is on a PR path
PrRun(r) == PushDenied(r) \/ (PushGranted(r) /\ Protected(r))

\* the repository a PR run writes to: the fork that createFork answered, or
\* else the base repository
HeadRepoOf(r) ==
  IF PushDenied(r)
    THEN IF Accepted(r, "createFork") = {} THEN ForkRepo
         ELSE LET i == CHOOSE i \in Accepted(r, "createFork") : TRUE
              IN [owner |-> log[r][i].ret.owner.login, repo |-> log[r][i].ret.name]
    ELSE BaseRepo

\* C17: on both PR paths every createRef and createOrUpdateFile names the
\* head repository and the newly named head branch, never the base branch, and
\* the base repository's branches stay where they were; getContents and
\* createOrUpdateFile name one and the same repository, branch and path; the
\* base branch moves on the direct-commit path only.
C17_BaseBranchUntouched ==
  \A r \in Runs :
    /\ PrRun(r) =>
         /\ \A i \in Calls(r, "createRef") :
              /\ RepoOf(log[r][i].args) = HeadRepoOf(r)
              /\ log[r][i].args.ref = "refs/heads/" \o MadeBranch(r)
         /\ \A i \in Calls(r, "createOrUpdateFile") :
              /\ RepoOf(log[r][i].args) = HeadRepoOf(r)
              /\ log[r][i].args.branch = MadeBranch(r)
              /\ log[r][i].args.branch # AskedBranch(r)
         /\ \A k \in DOMAIN InitRefs : refs[k] = InitRefs[k]
    /\ \A i \in Calls(r, "createOrUpdateFile") :
         \A j \in Calls(r, "getContents") :
           /\ RepoOf(log[r][i].args) = RepoOf(log[r][j].args)
           /\ log[r][i].args.branch = log[r][j].args.ref
           /\ log[r][i].args.path = log[r][j].args.path
           /\ log[r][i].args.path = params[r].filePath
    /\ (\E k \in DOMAIN InitRefs : refs[k] # InitRefs[k]) =>
         /\ DirectCommitRun(r) \/ local[r].pc = "idle"
         /\ \A k \in DOMAIN InitRefs :
              refs[k] # InitRefs[k] =>
                \E q \in Runs : DirectCommitRun(q) /\ k = <<BaseRepo, "refs/heads/" \o AskedBranch(q)>>

\* a PR run in the base repository has committed to its head branch; the base
\* branch is where it was
C17_Witness ==
  /\ Done(1) /\ PushGranted(1) /\ Protected(1)
  /\ refs[<<BaseRepo, "refs/heads/" \o local[1].headBranch>>] = 2
  /\ refs[<<BaseRepo, "refs/heads/" \o AskedBranch(1)>>] = 1

====
